---- MODULE Spec2Model ----
(***************************************************************************)
(* doodle-doc: ingestion pipeline (IngestionPipeline.run / _process_pdf), *)
(* the stores it feeds (FAISSIndex, ColQwen2Index, BM25Index, Database),  *)
(* the HTTP handlers that share the data directory with it (AppState,     *)
(* remove_documents, reindex_documents, search) and SearchService.search. *)
(***************************************************************************)
EXTENDS Integers, Sequences, FiniteSets, TLC

(***************************************************************************)
(* Bounds of the model.                                                    *)
(***************************************************************************)
\* doc_id = str(uuid.uuid4()) is modelled as a fresh number 1..MaxDocs
MaxDocs == 2

\* SearchService.search is checked on indexes of 0..MaxSearchPages pages,
\* with top_k in 0..MaxTopK
MaxSearchPages == 2

MaxTopK == 3

\* POST /v1/ingest is called at most MaxJobs times
MaxJobs == 2

\* the inner products of a query with the rows (and its MaxSim with the pages)
ScoreVals == {1, 2}

(***************************************************************************)
(* Settings (core/config.py).  The model runs a scaled configuration: the  *)
(* defaults are max_pages_per_doc = 500, stage1_top_k = 100,               *)
(* default_result_k = 20; all three are configurable fields of Settings.   *)
(***************************************************************************)
max_pages_per_doc == 2

stage1_top_k == 5

default_result_k == 2

(***************************************************************************)
(* The corpus on disk: PDF files, their bytes (sha256), their page count   *)
(* and which pages carry a text layer.  "c" has more pages than            *)
(* max_pages_per_doc and "z" is a PDF for which fitz reports zero pages.   *)
(***************************************************************************)
Files == {"a", "c", "z"}

compute_sha256(f) == CASE f = "a" -> 1 [] f = "c" -> 2 [] OTHER -> 3

get_page_count(f) == CASE f = "a" -> 1 [] f = "c" -> 3 [] OTHER -> 0

\* extract_text_layer returns None (FALSE here) when the stripped text is empty
extract_text_layer(f, p) == CASE f = "a" -> TRUE [] f = "c" -> (p = 1) [] OTHER -> FALSE

Roots == {"r1", "r2"}

\* discover_pdfs(root): the PDF files under root, in rglob order
discover_pdfs(root) == IF root = "r1" THEN <<"a">> ELSE <<"c", "z">>

\* extract_regions returns a dict whose insertion order is full, q1..q4
Regions == <<"full", "q1", "q2", "q3", "q4">>

VARIABLES
  colqwen_index_enabled, \* Settings.colqwen_index_enabled (multi-vector channel)
  documents,             \* C5: rows of table documents
  pages,                 \* C5: rows of table pages
  faissExists,           \* C2 on disk: index/faiss.index + metadata.json exist
  faissDisk,             \* C2 on disk: the saved metadata rows, row-parallel to the vectors
  rendered,              \* rendered/{doc_id}/{page_num}.png files
  colqFiles,             \* C3 on disk: colqwen/embeddings/{doc_id}_{page_num}.npy
  colqManifestExists,    \* C3 on disk: colqwen/manifest.json exists
  colqManifest,          \* C3 on disk: keys of manifest.json "pages"
  bm25Disk,              \* C4 on disk: metadata list of index/bm25/bm25.pkl
  nextDocId,             \* next fresh doc_id
  job,                   \* the running IngestionPipeline.run (one job thread)
  app,                   \* AppState of the server process
  hist,                  \* observations: what the last search consulted, the run before this one
  sq,                    \* the arguments of one SearchService.search call and the scores of its query
  sres,                  \* the list that call returned
  jobs,                  \* api/routes/ingest.py: _jobs and the job threads, by job_id
  cli,                   \* one invocation of the command line (cli.py) and its exit code
  fx,                    \* one FAISSIndex object and the index directory it is saved to
  fn                     \* one call of a pure function: its arguments and what it returned

disk == <<documents, pages, faissExists, faissDisk, rendered, colqFiles,
          colqManifestExists, colqManifest, bm25Disk>>

\* the state of the units that are checked on their own
units == <<jobs, cli, fx>>

vars == <<colqwen_index_enabled, documents, pages, faissExists, faissDisk, rendered,
          colqFiles, colqManifestExists, colqManifest, bm25Disk, nextDocId, job, app,
          hist, sq, sres, jobs, cli, fx, fn>>

\* the calls that are checked on their own arguments
srch == <<sq, sres, fn>>

Min(x, y) == IF x < y THEN x ELSE y

\* IndexingProgress(status=...) with the dataclass defaults
IndexingProgress(st) ==
  [status |-> st, docs_done |-> 0, docs_total |-> 0, pages_done |-> 0,
   pages_total |-> 0, current_doc |-> ""]

\* a pipeline that is not running: IngestionPipeline.__init__ leaves
\* _index, _colqwen_index and _db unset; a run that returned or raised
\* drops its pipeline object, only its progress value is kept.
\* emitted: the values the progress object had at the calls of on_progress
IdleJob ==
  [pc |-> "idle", root |-> "r1", force |-> FALSE, pdfs |-> <<>>, doc_id |-> 0,
   num_pages |-> 0, page_num |-> 0, index_loaded |-> FALSE, index |-> <<>>,
   colq_loaded |-> FALSE, colq |-> {}, progress |-> IndexingProgress("pending"),
   emitted |-> <<>>]

\* AppState.__init__: nothing loaded, no search service
\* ss: "none" no SearchService yet; "shared" it holds the AppState._index object;
\* "lazy" it was built with index=None and has not loaded yet; "own" it loaded its own copy
InitApp ==
  [index_loaded |-> FALSE, index |-> <<>>, ss |-> "none", ss_index |-> <<>>]

\* no SearchService.search call
NoQuery ==
  [pc |-> "none", top_k |-> 0, search_mode |-> "fast", use_rerank |-> FALSE,
   sc |-> <<>>, ms |-> <<>>, rerank_error |-> FALSE, text_query |-> FALSE,
   text_results |-> <<>>, calls |-> <<>>]

\* nothing observed yet.  last_root: the root of the last completed
\* force_reindex=False run when nothing was removed or reindexed since it
\* started; repeat, snap: this run repeats it, the store sizes it started from;
\* ingested: the pages this run processed; removed: the doc_ids removed by
\* DELETE /v1/documents; search_done, search_pages: a search was answered
\* since the last completed run, the pages of the index it consulted;
\* render_failed: the doc_id this run was processing when render_page raised
InitHist ==
  [search_done |-> FALSE, search_pages |-> {}, last_root |-> "none", repeat |-> FALSE,
   snap |-> <<0, 0, 0>>, ingested |-> {}, removed |-> {}, clean |-> TRUE,
   render_failed |-> 0]

\* no pure function was called
NoFn == [pc |-> "none"]

\* no job was started: _jobs = {}
NoJobs == <<>>

\* no command was given
NoCli ==
  [pc |-> "none", command |-> "none", path_exists |-> FALSE, raises |-> FALSE,
   mode |-> "both", check_regression |-> FALSE, save_baseline |-> FALSE,
   regression_threshold |-> 0, baseline |-> <<>>, current |-> <<>>, passed |-> <<>>,
   exit_code |-> 0]

\* no FAISSIndex.add call was made
NoCall ==
  [made |-> FALSE, raised |-> FALSE, n |-> 0, dim |-> 0, k |-> 0, vectors0 |-> <<>>,
   metadata0 |-> <<>>]

\* no FAISSIndex object under watch.  vectors: the rows of the faiss index
\* (ntotal = Len(vectors)), each named by the number of the embedding it
\* holds; id_to_metadata[i] names the embedding the i-th record describes;
\* faiss_index, metadata_json: the two files of the index directory;
\* call: the last add call; committed: the rows of the last completed save;
\* attempt: the rows of the save in progress or interrupted; torn: the object
\* was loaded from files that two different saves wrote
NoFx ==
  [pc |-> "none", embedding_dim |-> 0, vectors |-> <<>>, id_to_metadata |-> <<>>,
   faiss_index |-> [state |-> "absent", rows |-> <<>>],
   metadata_json |-> [state |-> "absent", rows |-> <<>>],
   next_row |-> 1, call |-> NoCall, committed |-> <<>>, attempt |-> <<>>, torn |-> FALSE]

Init ==
  /\ colqwen_index_enabled \in BOOLEAN
  /\ jobs = NoJobs
  /\ cli = NoCli
  /\ fx = NoFx
  /\ documents = {}
  /\ pages = {}
  /\ faissExists = FALSE
  /\ faissDisk = <<>>
  /\ rendered = {}
  /\ colqFiles = {}
  /\ colqManifestExists = FALSE
  /\ colqManifest = {}
  /\ bm25Disk = <<>>
  /\ nextDocId = 1
  /\ job = IdleJob
  /\ app = InitApp
  /\ hist = InitHist
  /\ sq = NoQuery
  /\ sres = <<>>
  /\ fn = NoFn

(***************************************************************************)
(* FAISSIndex (ingestion/index.py).  An index is the list id_to_metadata;  *)
(* row i of the vector matrix belongs to metadata[i].                      *)
(***************************************************************************)
\* FAISSIndex.add losing the last row of the batch
FAISSIndex_add_DropLast(index, metadata) ==
  index \o SubSeq(metadata, 1, Len(metadata) - 1)

\* FAISSIndex.add: appends the rows and their metadata
FAISSIndex_add(index, metadata) == index \o metadata

\* FAISSIndex.size
size(index) == Len(index)

\* IngestionPipeline.index / AppState.index: load from disk when faiss.index
\* exists, else a new empty index
LoadOrNewIndex == IF faissExists THEN faissDisk ELSE <<>>

\* IngestionPipeline.index property (lazy)
PipelineIndex == IF job.index_loaded THEN job.index ELSE LoadOrNewIndex

\* settings.colqwen_index_enabled as read by run() and _process_pdf: whether
\* the multi-vector channel is enabled for the ingest
multi_vector_enabled == colqwen_index_enabled

\* IngestionPipeline.colqwen_index property (lazy): ColQwen2Index.load when
\* manifest.json exists, else a new empty manifest
PipelineColq == IF job.colq_loaded THEN job.colq
                ELSE IF colqManifestExists THEN colqManifest ELSE {}

\* the 5 metadata dicts of a page with the quadrants before the full page
PageMetadata_QuadrantsFirst(d, p) ==
  [i \in 1..Len(Regions) |->
     [doc_id |-> d, page_num |-> p, region |-> Regions[(i % Len(Regions)) + 1]]]

\* the 5 metadata dicts built for one page, in regions.items() order
PageMetadata(d, p) ==
  [i \in 1..Len(Regions) |-> [doc_id |-> d, page_num |-> p, region |-> Regions[i]]]

\* filter_unchanged that filters nothing
filter_unchanged_KeepAll(pdfs, existing_hashes) == pdfs

\* filter_unchanged: keep the PDFs whose hash is not in existing_hashes
filter_unchanged(pdfs, existing_hashes) ==
  SelectSeq(pdfs, LAMBDA f : compute_sha256(f) \notin existing_hashes)

RECURSIVE SumPageCount(_)
\* sum(get_page_count(p.path) for p in pdfs)
SumPageCount(pdfs) ==
  IF pdfs = <<>> THEN 0 ELSE get_page_count(Head(pdfs)) + SumPageCount(Tail(pdfs))

\* number of rows of an index tagged (d, p)
RowsOf(index, d, p) ==
  Cardinality({i \in 1..Len(index) : index[i].doc_id = d /\ index[i].page_num = p})

\* number of rows of an index tagged with doc_id d
RowsOfDoc(index, d) == Cardinality({i \in 1..Len(index) : index[i].doc_id = d})

(***************************************************************************)
(* IngestionPipeline.run, one action per step a concurrent reader or an    *)
(* exception can separate.                                                 *)
(***************************************************************************)
\* _notify without a callback
Notify_NoCallback(jb) == jb

\* IngestionPipeline._notify: on_progress is called with the progress object
Notify(jb) == [jb EXCEPT !.emitted = Append(@, jb.progress)]

\* a new IngestionPipeline and run() lines 106-107
StartIngest(root, force) ==
  /\ job.pc \in {"idle", "done", "failed"}
  /\ job' = Notify([IdleJob EXCEPT !.pc = "discover", !.root = root, !.force = force,
                                   !.progress = IndexingProgress("discovering")])
  /\ hist' = [hist EXCEPT !.repeat = (~force /\ hist.last_root = root),
                          !.snap = IF ~force /\ hist.last_root = root
                                   THEN <<Cardinality(documents), Cardinality(pages),
                                          size(faissDisk)>>
                                   ELSE <<0, 0, 0>>,
                          !.ingested = {}, !.last_root = "none", !.clean = TRUE,
                          !.render_failed = 0]
  /\ UNCHANGED <<srch, units, colqwen_index_enabled, disk, nextDocId, app>>

\* run() lines 109-118: discover, dedupe, count
Discover ==
  /\ job.pc = "discover"
  /\ LET all == discover_pdfs(job.root)
         existing == {doc.sha256 : doc \in documents}
         pdfs == IF job.force THEN all ELSE filter_unchanged(all, existing)
     IN /\ nextDocId + Len(pdfs) - 1 <= MaxDocs
        /\ job' = Notify([job EXCEPT !.pdfs = pdfs,
                              !.progress.docs_total = Len(pdfs),
                              !.progress.pages_total = SumPageCount(pdfs),
                              !.progress.status = "indexing",
                              !.pc = IF pdfs = <<>> THEN "save" ELSE "begin_pdf"])
  /\ UNCHANGED <<srch, units, colqwen_index_enabled, disk, nextDocId, app, hist>>

\* run() lines 120-122 and _process_pdf lines 144-158: the Document row
BeginPdf ==
  /\ job.pc = "begin_pdf"
  /\ LET f == Head(job.pdfs)
         d == nextDocId
         n == Min(get_page_count(f), max_pages_per_doc)
     IN /\ documents' = documents \cup
              {[doc_id |-> d, path |-> f, sha256 |-> compute_sha256(f), num_pages |-> n]}
        /\ nextDocId' = d + 1
        /\ job' = [Notify([job EXCEPT !.progress.current_doc = f]) EXCEPT
                      !.doc_id = d, !.num_pages = n, !.page_num = 0,
                      !.pc = IF n = 0 THEN "end_pdf" ELSE "page"]
  /\ UNCHANGED <<srch, units, colqwen_index_enabled, pages, faissExists, faissDisk, rendered, colqFiles,
                 colqManifestExists, colqManifest, bm25Disk, app, hist>>

\* _process_pdf lines 161-175: render, save the PNG, text layer, the Page row
RenderPage ==
  /\ job.pc = "page"
  /\ LET f == Head(job.pdfs)
     IN /\ rendered' = rendered \cup {<<job.doc_id, job.page_num>>}
        /\ pages' = pages \cup {[doc_id |-> job.doc_id, page_num |-> job.page_num,
                                 text_layer |-> extract_text_layer(f, job.page_num)]}
  /\ job' = [job EXCEPT !.pc = "embed"]
  /\ UNCHANGED <<srch, units, colqwen_index_enabled, documents, faissExists, faissDisk, colqFiles,
                 colqManifestExists, colqManifest, bm25Disk, nextDocId, app, hist>>

\* render_page raises (line 161): the exception leaves run(), nothing is saved
RenderFail ==
  /\ job.pc = "page"
  /\ job' = [IdleJob EXCEPT !.pc = "failed", !.root = job.root, !.force = job.force,
                            !.progress = job.progress, !.emitted = job.emitted]
  /\ hist' = [hist EXCEPT !.render_failed = job.doc_id]
  /\ UNCHANGED <<srch, units, colqwen_index_enabled, disk, nextDocId, app>>

\* _process_pdf lines 177-202: 5 region embeddings, index.add, the
\* multi-vector matrix, pages_done
IndexPage ==
  /\ job.pc = "embed"
  /\ LET d == job.doc_id
         p == job.page_num
     IN /\ job' = Notify([job EXCEPT
                !.index_loaded = TRUE,
                !.index = FAISSIndex_add(PipelineIndex, PageMetadata(d, p)),
                !.colq_loaded = @ \/ multi_vector_enabled,
                !.colq = IF multi_vector_enabled THEN PipelineColq \cup {<<d, p>>} ELSE @,
                !.progress.pages_done = @ + 1,
                !.page_num = p + 1,
                !.pc = IF p + 1 < job.num_pages THEN "page" ELSE "end_pdf"])
        /\ colqFiles' = IF multi_vector_enabled THEN colqFiles \cup {<<d, p>>} ELSE colqFiles
        /\ hist' = [hist EXCEPT !.ingested = @ \cup {<<d, p>>}]
  /\ UNCHANGED <<srch, units, colqwen_index_enabled, documents, pages, faissExists, faissDisk, rendered,
                 colqManifestExists, colqManifest, bm25Disk, nextDocId, app>>

\* embed_single raises (line 187 or 198 before the add): nothing is added
EmbedFail ==
  /\ job.pc = "embed"
  /\ job' = [IdleJob EXCEPT !.pc = "failed", !.root = job.root, !.force = job.force,
                            !.progress = job.progress, !.emitted = job.emitted]
  /\ UNCHANGED <<srch, units, colqwen_index_enabled, disk, nextDocId, app, hist>>

\* run() lines 125-126
EndPdf ==
  /\ job.pc = "end_pdf"
  /\ job' = Notify([job EXCEPT !.pdfs = Tail(@),
                        !.progress.docs_done = @ + 1,
                        !.pc = IF Tail(job.pdfs) = <<>> THEN "save" ELSE "begin_pdf"])
  /\ UNCHANGED <<srch, units, colqwen_index_enabled, disk, nextDocId, app, hist>>

\* run() that never saves the manifest of C3
SaveIndex_NoColqSave ==
  /\ job.pc = "save"
  /\ faissExists' = TRUE
  /\ faissDisk' = PipelineIndex
  /\ job' = Notify([IdleJob EXCEPT !.pc = "done", !.root = job.root, !.force = job.force,
                            !.progress = [job.progress EXCEPT !.status = "completed"],
                            !.emitted = job.emitted])
  /\ hist' = [hist EXCEPT !.last_root = IF job.force \/ ~hist.clean THEN "none" ELSE job.root,
                          !.search_done = FALSE]
  /\ UNCHANGED <<srch, units, colqwen_index_enabled, documents, pages, rendered, colqFiles, bm25Disk,
                 nextDocId, app, colqManifestExists, colqManifest>>

\* run() lines 128-135: FAISSIndex.save, ColQwen2Index.save, status completed
SaveIndex ==
  /\ job.pc = "save"
  /\ faissExists' = TRUE
  /\ faissDisk' = PipelineIndex
  /\ colqManifestExists' = (colqManifestExists \/ multi_vector_enabled)
  /\ colqManifest' = IF multi_vector_enabled THEN PipelineColq ELSE colqManifest
  /\ job' = Notify([IdleJob EXCEPT !.pc = "done", !.root = job.root, !.force = job.force,
                            !.progress = [job.progress EXCEPT !.status = "completed"],
                            !.emitted = job.emitted])
  /\ hist' = [hist EXCEPT !.last_root = IF job.force \/ ~hist.clean THEN "none" ELSE job.root,
                          !.search_done = FALSE]
  /\ UNCHANGED <<srch, units, colqwen_index_enabled, documents, pages, rendered, colqFiles, bm25Disk,
                 nextDocId, app>>

(***************************************************************************)
(* The server process: AppState (api/deps.py) and the handlers of          *)
(* api/routes/search.py and api/routes/documents.py.  A handler runs in a  *)
(* worker thread next to the job thread.                                   *)
(***************************************************************************)
\* AppState.index property (lazy)
AppIndex == IF app.index_loaded THEN app.index ELSE LoadOrNewIndex

\* AppState.search_service property: SearchService(index=self._index) shares
\* the loaded index object, or gets None when none is loaded yet
SearchServiceKind ==
  IF app.ss # "none" THEN app.ss ELSE IF app.index_loaded THEN "shared" ELSE "lazy"

\* the pages whose 5 region rows are all in an index
PagesIn(index) ==
  {k \in {<<index[i].doc_id, index[i].page_num>> : i \in 1..Len(index)} :
     RowsOf(index, k[1], k[2]) = Len(Regions)}

\* POST /v1/search: state.search_service.search(...), then state.index.size.
\* SearchService.index loads with FAISSIndex.load and raises when there is
\* no faiss.index; the handler then ends before state.index is touched.
Search ==
  LET kind == SearchServiceKind
      raises == kind = "lazy" /\ ~faissExists
      consulted == CASE kind = "shared" -> app.index
                     [] kind = "own" -> app.ss_index
                     [] OTHER -> faissDisk
  IN /\ app' = IF raises THEN [app EXCEPT !.ss = "lazy"]
               ELSE [app EXCEPT !.ss = IF kind = "lazy" THEN "own" ELSE kind,
                                !.ss_index = IF kind = "shared" THEN <<>> ELSE consulted,
                                !.index_loaded = TRUE,
                                !.index = AppIndex]
     /\ hist' = IF raises THEN hist
                ELSE [hist EXCEPT !.search_done = TRUE, !.search_pages = PagesIn(consulted)]
     /\ app' # app \/ hist' # hist
     /\ UNCHANGED <<srch, units, colqwen_index_enabled, disk, nextDocId, job>>

\* Database.delete_document: deletes the document row, cascading through its pages
delete_document(d) ==
  /\ documents' = {doc \in documents : doc.doc_id # d}
  /\ pages' = {pg \in pages : pg.doc_id # d}

\* FAISSIndex.remove_by_doc_id: drops the rows of the document (compaction)
remove_by_doc_id(index, d) == SelectSeq(index, LAMBDA m : m.doc_id # d)

\* DELETE /v1/documents with doc_ids = [d] (documents.py lines 65-84)
RemoveDocuments(d) ==
  /\ \E doc \in documents : doc.doc_id = d
  /\ delete_document(d)
  /\ rendered' = {k \in rendered : k[1] # d}
  /\ app' = [app EXCEPT !.index_loaded = TRUE, !.index = remove_by_doc_id(AppIndex, d)]
  /\ faissExists' = TRUE
  /\ faissDisk' = remove_by_doc_id(AppIndex, d)
  /\ hist' = [hist EXCEPT !.removed = @ \cup {d}, !.last_root = "none", !.repeat = FALSE,
                          !.clean = FALSE]
  /\ UNCHANGED <<srch, units, colqwen_index_enabled, colqFiles, colqManifestExists, colqManifest,
                 bm25Disk, nextDocId, job>>

RECURSIVE ProcessPages(_, _, _)
\* the rows _process_pdf appends for pages 0..n-1 of document d, in order
ProcessPages(d, p, n) ==
  IF p >= n THEN <<>> ELSE PageMetadata(d, p) \o ProcessPages(d, p + 1, n)

\* POST /v1/documents/reindex with doc_ids = [d] (documents.py lines 87-130):
\* remove the old data, then _process_pdf of the same path on state.index
\* and state.db under a fresh doc_id, then state.index.save
ReindexDocuments(d) ==
  /\ \E doc \in documents : doc.doc_id = d
  /\ nextDocId <= MaxDocs
  /\ LET doc == CHOOSE x \in documents : x.doc_id = d
         f == doc.path
         d2 == nextDocId
         n == Min(get_page_count(f), max_pages_per_doc)
         newIndex == remove_by_doc_id(AppIndex, d) \o ProcessPages(d2, 0, n)
         newPages == {<<d2, p>> : p \in 0..(n - 1)}
     IN /\ documents' = {x \in documents : x.doc_id # d} \cup
              {[doc_id |-> d2, path |-> f, sha256 |-> compute_sha256(f), num_pages |-> n]}
        /\ pages' = {pg \in pages : pg.doc_id # d} \cup
              {[doc_id |-> d2, page_num |-> p, text_layer |-> extract_text_layer(f, p)] :
                 p \in 0..(n - 1)}
        /\ rendered' = {k \in rendered : k[1] # d} \cup newPages
        /\ colqFiles' = IF multi_vector_enabled THEN colqFiles \cup newPages ELSE colqFiles
        /\ app' = [app EXCEPT !.index_loaded = TRUE, !.index = newIndex]
        /\ faissExists' = TRUE
        /\ faissDisk' = newIndex
        /\ nextDocId' = d2 + 1
  /\ hist' = [hist EXCEPT !.last_root = "none", !.repeat = FALSE,
                          !.clean = FALSE]
  /\ UNCHANGED <<srch, units, colqwen_index_enabled, colqManifestExists, colqManifest, bm25Disk, job>>

Server ==
  \/ Search
  \/ \E d \in 1..MaxDocs : RemoveDocuments(d)
  \/ \E d \in 1..MaxDocs : ReindexDocuments(d)

Ingest ==
  \/ \E root \in Roots, force \in BOOLEAN : StartIngest(root, force)
  \/ Discover
  \/ BeginPdf
  \/ RenderPage
  \/ RenderFail
  \/ IndexPage
  \/ EmbedFail
  \/ EndPdf
  \/ SaveIndex

Next == Ingest \/ Server

Spec == Init /\ [][Next]_vars

(***************************************************************************)
(* SearchService.search (search/retrieval.py), ColQwen2SearchService       *)
(* (search/colqwen_search.py) and ColQwen2Reranker.rerank                  *)
(* (search/rerank.py).  A query is given by its scores: sc[i] is the inner *)
(* product of the query embedding with row i of C2, ms[k] the MaxSim of    *)
(* the sketch with page k.                                                 *)
(***************************************************************************)
Max(x, y) == IF x > y THEN x ELSE y

\* s[:k]
Prefix(s, k) == SubSeq(s, 1, Min(k, Len(s)))

\* the sequences over S of length 0..n
SeqsUpTo(S, n) == UNION {[1..m -> S] : m \in 0..n}

\* a ranked list names a key once; its items are (key, score) with the
\* scores of a ranking
Ranking(l) == [i \in 1..Len(l) |-> [key |-> l[i], score |-> Len(l) - i + 1]]

\* the ranked lists over the keys S, of length 0..n
RankedOver(S, n) ==
  {Ranking(l) : l \in {x \in SeqsUpTo(S, n) : \A i, j \in 1..Len(x) : x[i] = x[j] => i = j}}

\* s without its element at position b
RemoveAt(s, b) == SubSeq(s, 1, b - 1) \o SubSeq(s, b + 1, Len(s))

RECURSIVE SortDesc(_)
\* sorted(..., key=score, reverse=True): descending, equal scores keep their order
SortDesc(s) ==
  IF s = <<>> THEN <<>>
  ELSE LET b == CHOOSE i \in 1..Len(s) :
                  \A j \in 1..Len(s) :
                     s[i].score > s[j].score \/ (s[i].score = s[j].score /\ i <= j)
       IN <<s[b]>> \o SortDesc(RemoveAt(s, b))

\* FAISSIndex.search: the k best rows by inner product, descending, fewer
\* when the index has fewer rows (the -1 indices are filtered)
FAISSIndex_search(index, sc, k) ==
  Prefix(SortDesc([i \in 1..Len(index) |-> [meta |-> index[i], score |-> sc[i]]]), k)

RECURSIVE Aggregate(_, _)
\* the loop of _aggregate_by_page over a defaultdict(float): a new key starts
\* from 0.0, keys keep their first-insertion order
Aggregate(hits, acc) ==
  IF hits = <<>> THEN acc
  ELSE LET h == Head(hits)
           key == <<h.meta.doc_id, h.meta.page_num>>
           pos == {i \in 1..Len(acc) : acc[i].key = key}
       IN IF pos = {}
          THEN Aggregate(Tail(hits), Append(acc, [key |-> key, score |-> Max(0, h.score)]))
          ELSE LET i == CHOOSE x \in pos : TRUE
               IN Aggregate(Tail(hits), [acc EXCEPT ![i].score = Max(@, h.score)])

\* SearchService._aggregate_by_page
aggregate_by_page(results) == Aggregate(results, <<>>)

\* the loop of search() lines 138-151: a SearchResult per page key whose
\* document db.get_document finds
FastResults(sorted_pages) ==
  LET found == SelectSeq(sorted_pages, LAMBDA e : e.key[1] \in {doc.doc_id : doc \in documents})
  IN [i \in 1..Len(found) |->
        [doc_id |-> found[i].key[1], page_num |-> found[i].key[2],
         score |-> found[i].score, stage |-> "fast"]]

\* ColQwen2Reranker.rerank: candidates without a rendered PNG are dropped,
\* the others are rescored and sorted; with no valid candidate, or when
\* scoring raises, the stage-1 list is returned cut to top_k
rerank(results, top_k, ms, rerank_error) ==
  LET valid == SelectSeq(results, LAMBDA r : <<r.doc_id, r.page_num>> \in rendered)
      scored == [i \in 1..Len(valid) |->
                   [valid[i] EXCEPT !.score = ms[<<valid[i].doc_id, valid[i].page_num>>],
                                    !.stage = "reranked"]]
  IN IF results = <<>> THEN <<>>
     ELSE IF valid = <<>> \/ rerank_error THEN Prefix(results, top_k)
     ELSE Prefix(SortDesc(scored), top_k)

RECURSIVE SortKeys(_)
\* the keys of a manifest in insertion order: documents get increasing
\* doc_ids and their pages are added in page order
SortKeys(S) ==
  IF S = {} THEN <<>>
  ELSE LET k == CHOOSE x \in S : \A y \in S : x[1] < y[1] \/ (x[1] = y[1] /\ x[2] <= y[2])
       IN <<k>> \o SortKeys(S \ {k})

\* ColQwen2Index.all_page_keys of the index loaded from manifest.json
all_page_keys == SortKeys(colqManifest)

\* is_available looking at the manifest file only
is_available_ManifestOnly == colqManifestExists

\* ColQwen2SearchService.is_available
is_available == colqManifestExists /\ Cardinality(colqManifest) > 0

\* ColQwen2SearchService.search: MaxSim of the sketch with every stored
\* matrix (get returns None when the file is gone), best top_k first
colqwen_search(top_k0, ms) ==
  LET top_k == IF top_k0 = 0 THEN default_result_k ELSE top_k0
      stored == SelectSeq(all_page_keys, LAMBDA k : k \in colqFiles)
      scores == SortDesc([i \in 1..Len(stored) |-> [key |-> stored[i], score |-> ms[stored[i]]]])
      best == SelectSeq(Prefix(scores, top_k),
                        LAMBDA e : e.key[1] \in {doc.doc_id : doc \in documents})
  IN [i \in 1..Len(best) |->
        [doc_id |-> best[i].key[1], page_num |-> best[i].key[2],
         score |-> best[i].score, stage |-> "colqwen2"]]

\* k of reciprocal_rank_fusion
rrf_k == 60

\* a ranked list has at most MaxRank entries
MaxRank == 3

RECURSIVE RRFScale(_, _)
\* fused scores are exact fractions, counted in units of
\* 1 / ((k+1) * ... * (k+n)) with n the longest list of the model
RRFScale(k, n) == IF n = 0 THEN 1 ELSE (k + n) * RRFScale(k, n - 1)

\* 1.0 / (k + rank) in those units
RRFTerm(k, rank) == RRFScale(k, Max(MaxRank, MaxSearchPages)) \div (k + rank)

RECURSIVE RRFList(_, _, _, _)
\* the inner loop of reciprocal_rank_fusion over one list, enumerate(start=1):
\* scores[key] += 1.0 / (k + rank); a defaultdict inserts a new key at the end
RRFList(result_list, rank, k, scores) ==
  IF rank > Len(result_list) THEN scores
  ELSE LET key == result_list[rank].key
           pos == {i \in 1..Len(scores) : scores[i].key = key}
       IN RRFList(result_list, rank + 1, k,
                  IF pos = {}
                  THEN Append(scores, [key |-> key, score |-> RRFTerm(k, rank)])
                  ELSE LET i == CHOOSE x \in pos : TRUE
                       IN [scores EXCEPT ![i].score = @ + RRFTerm(k, rank)])

RECURSIVE RRFLists(_, _, _)
\* the outer loop of reciprocal_rank_fusion
RRFLists(result_lists, k, scores) ==
  IF result_lists = <<>> THEN scores
  ELSE RRFLists(Tail(result_lists), k, RRFList(Head(result_lists), 1, k, scores))

\* reciprocal_rank_fusion returning scores.items() as it stands
reciprocal_rank_fusion_Unsorted(result_lists, k) == RRFLists(result_lists, k, <<>>)

\* reciprocal_rank_fusion: sorted(scores.items(), key=score, reverse=True)
reciprocal_rank_fusion(result_lists, k) == SortDesc(RRFLists(result_lists, k, <<>>))

\* Settings.enable_text_boost
enable_text_boost == TRUE

\* page_scores.get(page_key, 0.0)
ScoreOf(page_scores, page_key) ==
  LET pos == {i \in 1..Len(page_scores) : page_scores[i].key = page_key}
  IN IF pos = {} THEN 0 ELSE page_scores[CHOOSE i \in pos : TRUE].score

\* SearchService.search lines 113-151, the single-vector pipeline: the
\* candidate pages in the order of sorted_pages, with the score reported for
\* each.  q.text_results is what bm25.search(text_query, stage1_top_k) returns
stage1(index, q, stage1_limit) ==
  LET raw_results == FAISSIndex_search(index, q.sc, stage1_top_k)
      page_scores == aggregate_by_page(raw_results)
      fused == Prefix(reciprocal_rank_fusion(<<page_scores, q.text_results>>, rrf_k),
                      stage1_limit)
      sorted_pages ==
        IF q.text_query /\ enable_text_boost
        THEN [i \in 1..Len(fused) |->
                [key |-> fused[i].key, score |-> ScoreOf(page_scores, fused[i].key)]]
        ELSE Prefix(SortDesc(page_scores), stage1_limit)
  IN FastResults(sorted_pages)

\* SearchService.search over the index the service holds
search(index, q) ==
  LET top_k == IF q.top_k = 0 THEN default_result_k ELSE q.top_k
      accurate == q.search_mode = "accurate" \/ (q.use_rerank /\ q.search_mode = "fast")
      use_rerank == IF accurate THEN TRUE ELSE q.use_rerank
      stage1_limit == IF use_rerank THEN stage1_top_k ELSE top_k
      results == stage1(index, q, stage1_limit)
  IN IF accurate /\ is_available THEN colqwen_search(top_k, q.ms)
     ELSE IF use_rerank /\ results # <<>>
          THEN rerank(results, top_k, q.ms, q.rerank_error)
          ELSE results

\* the collaborators one SearchService.search call invokes, in order
search_calls(index, q) ==
  LET top_k == IF q.top_k = 0 THEN default_result_k ELSE q.top_k
      accurate == q.search_mode = "accurate" \/ (q.use_rerank /\ q.search_mode = "fast")
      use_rerank == IF accurate THEN TRUE ELSE q.use_rerank
      stage1_limit == IF use_rerank THEN stage1_top_k ELSE top_k
      results == stage1(index, q, stage1_limit)
  IN IF accurate /\ is_available THEN <<"colqwen_search.search">>
     ELSE <<"index.search">>
          \o (IF q.text_query /\ enable_text_boost THEN <<"bm25.search">> ELSE <<>>)
          \o (IF use_rerank /\ results # <<>> THEN <<"reranker.rerank">> ELSE <<>>)

RECURSIVE IndexOfDocs(_)
\* the rows of C2 after n one-page documents 1..n were ingested one by one
IndexOfDocs(n) == IF n = 0 THEN <<>> ELSE IndexOfDocs(n - 1) \o ProcessPages(n, 0, 1)

\* The data directory after a.pdf was ingested n times (force_reindex), with
\* or without the multi-vector channel, and one search call with its scores.
\* The four quadrant rows of a page share one score (quad), its "full" row
\* has its own (full).
\* A call answered from C3 is scored by ms, any other call by sc (a fallback
\* to the reranker by both when only the "full" rows score above 1).  Before
\* a call that falls back to the reranker, rendered PNGs may have been
\* deleted from rendered/.  A call with a text query is a fast call in which
\* only the "full" rows score above 1, with the ranked list bm25.search
\* returns.
SearchInit ==
  \E n \in 0..MaxSearchPages, colq \in BOOLEAN :
    LET keys == {<<d, 0>> : d \in 1..n}
    IN /\ colqwen_index_enabled = colq
       /\ documents = {[doc_id |-> d, path |-> "a", sha256 |-> compute_sha256("a"),
                        num_pages |-> 1] : d \in 1..n}
       /\ pages = {[doc_id |-> d, page_num |-> 0, text_layer |-> extract_text_layer("a", 0)] :
                     d \in 1..n}
       /\ faissExists = TRUE
       /\ faissDisk = IndexOfDocs(n)
       /\ rendered \in SUBSET keys
       /\ colqFiles = IF colq THEN keys ELSE {}
       /\ colqManifestExists = colq
       /\ colqManifest = IF colq THEN keys ELSE {}
       /\ bm25Disk = <<>>
       /\ nextDocId = n + 1
       /\ job = IdleJob
       /\ app = InitApp
       /\ hist = InitHist
       /\ sres = <<>>
       /\ fn = NoFn
       /\ jobs = NoJobs
       /\ cli = NoCli
       /\ fx = NoFx
       /\ \E top_k \in 0..MaxTopK, search_mode \in {"fast", "accurate"},
             use_rerank \in BOOLEAN, rerank_error \in BOOLEAN, text_query \in BOOLEAN :
            LET multi == (search_mode = "accurate" \/ use_rerank) /\ colq /\ n > 0
                fallback == (search_mode = "accurate" \/ use_rerank) /\ ~multi
                plain == search_mode = "fast" /\ ~use_rerank
            IN /\ ~(search_mode = "accurate" /\ use_rerank)
               /\ rerank_error => (fallback /\ search_mode = "accurate")
               /\ text_query => (plain /\ ~colq)
               /\ ~fallback => rendered = keys
               /\ \E full \in [1..n -> ScoreVals], quad \in [1..n -> ScoreVals],
                     ms \in [keys -> ScoreVals], text_results \in RankedOver(keys, n) :
                    LET sc == [i \in 1..(n * Len(Regions)) |->
                                 IF (i - 1) % Len(Regions) = 0
                                   THEN full[((i - 1) \div Len(Regions)) + 1]
                                   ELSE quad[((i - 1) \div Len(Regions)) + 1]]
                        by_page == \A i \in DOMAIN sc :
                                      (i - 1) % Len(Regions) # 0 => sc[i] = 1
                    IN /\ multi => \A i \in DOMAIN sc : sc[i] = 1
                       /\ ~multi => ((\A k \in keys : ms[k] = 1) \/ (fallback /\ by_page))
                       /\ (plain /\ (colq \/ text_query)) => by_page
                       /\ ~text_query => text_results = <<>>
                       /\ sq = [pc |-> "call", top_k |-> top_k, search_mode |-> search_mode,
                                use_rerank |-> use_rerank, sc |-> sc, ms |-> ms,
                                rerank_error |-> rerank_error, text_query |-> text_query,
                                text_results |-> text_results, calls |-> <<>>]

\* one call of SearchService.search; a service built without an index loads
\* the saved one (SearchService.index)
DoSearch ==
  /\ sq.pc = "call"
  /\ sres' = search(faissDisk, sq)
  /\ sq' = [sq EXCEPT !.pc = "returned", !.calls = search_calls(faissDisk, sq)]
  /\ UNCHANGED <<colqwen_index_enabled, disk, nextDocId, job, app, hist, units, fn>>

SearchNext == DoSearch

SpecSearch == SearchInit /\ [][SearchNext]_vars

(***************************************************************************)
(* The command line (cli.py) and EvalRunner.compare_to_baseline            *)
(* (eval/runner.py).  recall@10 values and the threshold are counted in    *)
(* hundredths (72 is 0.72) and are exact numbers.                          *)
(***************************************************************************)
\* an empty data directory, no server, no job, no search call
EmptyDataDir ==
  /\ documents = {}
  /\ pages = {}
  /\ faissExists = FALSE
  /\ faissDisk = <<>>
  /\ rendered = {}
  /\ colqFiles = {}
  /\ colqManifestExists = FALSE
  /\ colqManifest = {}
  /\ bm25Disk = <<>>
  /\ nextDocId = 1
  /\ job = IdleJob
  /\ app = InitApp
  /\ hist = InitHist
  /\ sq = NoQuery
  /\ sres = <<>>

\* the search modes EvalRunner.run evaluates by default
Modes == {"fast", "accurate"}

\* recall@10 of a run or of a baseline file, in hundredths
RecallVals == {65, 70, 72, 75}

\* --regression-threshold, in hundredths (default 0.05)
Thresholds == {5, 7}

\* baseline_{mode}.json does not exist (load_baseline returns None)
NoBaseline == -1

\* compare_to_baseline that also flags a drop equal to the threshold
compare_to_baseline_GE(baseline, current, search_mode, threshold) ==
  IF baseline[search_mode] = NoBaseline THEN TRUE
  ELSE LET diff == baseline[search_mode] - current[search_mode]
       IN IF diff >= threshold THEN FALSE ELSE TRUE

\* EvalRunner.compare_to_baseline: the passed flag of the returned pair
compare_to_baseline(baseline, current, search_mode, threshold) ==
  IF baseline[search_mode] = NoBaseline THEN TRUE
  ELSE LET diff == baseline[search_mode] - current[search_mode]
       IN IF diff > threshold THEN FALSE ELSE TRUE

\* the modes cmd_eval passes to runner.run: None (both) unless --mode is given
EvalModes(mode) == IF mode = "both" THEN Modes ELSE {mode}

\* one command line: `index <path> [--force]` or
\* `eval [--mode] [--check-regression] [--regression-threshold] [--save-baseline]`
\* with the baseline files of the results directory and the recall@10 the
\* evaluation is going to measure; raises: pipeline.run / runner.run raises
CliInit ==
  /\ colqwen_index_enabled = FALSE
  /\ EmptyDataDir
  /\ fn = NoFn
  /\ jobs = NoJobs
  /\ fx = NoFx
  /\ \/ \E path_exists \in BOOLEAN, raises \in BOOLEAN :
          /\ raises => path_exists
          /\ cli = [NoCli EXCEPT !.pc = "call", !.command = "index",
                                 !.path_exists = path_exists, !.raises = raises]
     \/ \E mode \in Modes \cup {"both"}, check_regression \in BOOLEAN,
           save_baseline \in BOOLEAN, threshold \in Thresholds, raises \in BOOLEAN,
           baseline \in [Modes -> RecallVals \cup {NoBaseline}],
           current \in [Modes -> RecallVals] :
          /\ \A m \in Modes \ EvalModes(mode) :
                baseline[m] = NoBaseline /\ current[m] = 65
          /\ raises => (~check_regression /\ ~save_baseline /\ mode = "fast"
                        /\ threshold = 5 /\ baseline["fast"] = NoBaseline
                        /\ current["fast"] = 65)
          /\ cli = [NoCli EXCEPT !.pc = "call", !.command = "eval", !.mode = mode,
                                 !.check_regression = check_regression,
                                 !.save_baseline = save_baseline,
                                 !.regression_threshold = threshold, !.raises = raises,
                                 !.baseline = baseline, !.current = current]

\* cmd_index; an exception leaving main() ends the interpreter with status 1
cmd_index ==
  /\ cli.pc = "call"
  /\ cli.command = "index"
  /\ cli' = [cli EXCEPT !.pc = "returned",
                        !.exit_code = IF ~cli.path_exists THEN 1
                                      ELSE IF cli.raises THEN 1 ELSE 0]
  /\ UNCHANGED <<colqwen_index_enabled, disk, nextDocId, job, app, hist, srch, jobs, fx>>

\* cmd_eval: runner.run, compare_to_baseline per evaluated mode when
\* --check-regression, save_as_baseline per mode when --save-baseline, return 0
cmd_eval ==
  /\ cli.pc = "call"
  /\ cli.command = "eval"
  /\ LET modes == EvalModes(cli.mode)
     IN cli' =
          IF cli.raises THEN [cli EXCEPT !.pc = "returned", !.exit_code = 1]
          ELSE [cli EXCEPT
                  !.pc = "returned",
                  !.passed = IF cli.check_regression
                             THEN [m \in modes |->
                                     compare_to_baseline(cli.baseline, cli.current, m,
                                                         cli.regression_threshold)]
                             ELSE <<>>,
                  !.baseline = IF cli.save_baseline
                               THEN [m \in Modes |->
                                       IF m \in modes THEN cli.current[m] ELSE cli.baseline[m]]
                               ELSE cli.baseline,
                  !.exit_code = 0]
  /\ UNCHANGED <<colqwen_index_enabled, disk, nextDocId, job, app, hist, srch, jobs, fx>>

CliNext == cmd_index \/ cmd_eval

SpecCli == CliInit /\ [][CliNext]_vars

(***************************************************************************)
(* One FAISSIndex object (ingestion/index.py) in a pipeline process: add,  *)
(* the two writes of save, the process being killed, and the load of the   *)
(* next process.                                                           *)
(***************************************************************************)
\* Settings.embedding_dim
embedding_dim == 1152

\* the second dimension of the array passed to add: embedding_dim, or the
\* width of another embedder
EmbDims == {embedding_dim, 768}

\* the number of rows, and of metadata records, passed to one add call
BatchSizes == {1, 2}

\* add calls are made until MaxRows embeddings were computed
MaxRows == 3

\* the embeddings first .. first+n-1
NewRows(first, n) == [i \in 1..n |-> first + i - 1]

\* the asserts of add without the one on the dimension
add_raises_RowsOnly(index_dim, n, dim, k) == n # k

\* FAISSIndex.add lines 25-26: the two asserts
add_raises(index_dim, n, dim, k) == n # k \/ dim # index_dim

\* a pipeline process with a new FAISSIndex(settings.embedding_dim), nothing saved
IndexInit ==
  /\ colqwen_index_enabled = FALSE
  /\ EmptyDataDir
  /\ fn = NoFn
  /\ jobs = NoJobs
  /\ cli = NoCli
  /\ fx = [NoFx EXCEPT !.pc = "ready", !.embedding_dim = embedding_dim]

\* FAISSIndex.add(embeddings of shape (n, dim), k metadata records), called by
\* _process_pdf line 195; an AssertionError leaves _process_pdf and run()
FxAdd(n, dim, k) ==
  /\ fx.pc \in {"ready", "loaded"}
  /\ fx.next_row <= MaxRows
  /\ LET call == [made |-> TRUE, raised |-> add_raises(fx.embedding_dim, n, dim, k),
                  n |-> n, dim |-> dim, k |-> k, vectors0 |-> fx.vectors,
                  metadata0 |-> fx.id_to_metadata]
     IN fx' = IF call.raised
              THEN [fx EXCEPT !.pc = "aborted", !.call = call]
              ELSE [fx EXCEPT !.pc = "ready", !.call = call,
                              !.vectors = @ \o NewRows(fx.next_row, n),
                              !.id_to_metadata = @ \o NewRows(fx.next_row, k),
                              !.next_row = @ + n]
  /\ UNCHANGED <<colqwen_index_enabled, disk, nextDocId, job, app, hist, srch, jobs, cli>>

\* FAISSIndex.save line 58: faiss.write_index
FxWriteIndex ==
  /\ fx.pc \in {"ready", "loaded"}
  /\ fx' = [fx EXCEPT !.pc = "saving", !.call = NoCall,
                      !.faiss_index = [state |-> "complete", rows |-> fx.vectors],
                      !.attempt = fx.vectors]
  /\ UNCHANGED <<colqwen_index_enabled, disk, nextDocId, job, app, hist, srch, jobs, cli>>

\* FAISSIndex.save lines 60-61: open(metadata.json, "w"), json.dump
FxWriteMetadata ==
  /\ fx.pc = "saving"
  /\ fx' = [fx EXCEPT !.pc = "ready",
                      !.metadata_json = [state |-> "complete", rows |-> fx.id_to_metadata],
                      !.committed = fx.attempt]
  /\ UNCHANGED <<colqwen_index_enabled, disk, nextDocId, job, app, hist, srch, jobs, cli>>

\* the process is killed: outside save; inside faiss.write_index (the file
\* is cut short); between the two writes; inside the write of metadata.json
\* (open(.., "w") has truncated it)
FxInterrupt(inside_write) ==
  /\ fx.pc \in {"ready", "loaded", "saving"}
  /\ LET down == [fx EXCEPT !.pc = "down", !.vectors = <<>>, !.id_to_metadata = <<>>,
                            !.call = NoCall]
     IN fx' = IF ~inside_write THEN down
              ELSE IF fx.pc = "saving"
                   THEN [down EXCEPT !.metadata_json.state = "partial"]
                   ELSE [down EXCEPT !.faiss_index.state = "partial", !.attempt = fx.vectors]
  /\ UNCHANGED <<colqwen_index_enabled, disk, nextDocId, job, app, hist, srch, jobs, cli>>

\* the next pipeline process: IngestionPipeline.index loads the directory
\* with FAISSIndex.load when faiss.index exists, else starts a new index;
\* read_index raises on a file cut short, open / json.load on a missing or
\* truncated metadata.json
FxLoad ==
  /\ fx.pc \in {"down", "aborted"}
  /\ fx' =
       IF fx.faiss_index.state = "absent"
       THEN [fx EXCEPT !.pc = "loaded", !.vectors = <<>>, !.id_to_metadata = <<>>,
                       !.call = NoCall, !.torn = FALSE]
       ELSE IF fx.faiss_index.state = "partial" \/ fx.metadata_json.state # "complete"
            THEN [fx EXCEPT !.pc = "load_failed", !.vectors = <<>>, !.id_to_metadata = <<>>,
                            !.call = NoCall]
            ELSE [fx EXCEPT !.pc = "loaded", !.vectors = fx.faiss_index.rows,
                            !.id_to_metadata = fx.metadata_json.rows, !.call = NoCall,
                            !.torn = (fx.faiss_index.rows # fx.metadata_json.rows)]
  /\ UNCHANGED <<colqwen_index_enabled, disk, nextDocId, job, app, hist, srch, jobs, cli>>

IndexNext ==
  \/ \E n \in BatchSizes, dim \in EmbDims, k \in BatchSizes : FxAdd(n, dim, k)
  \/ FxWriteIndex
  \/ FxWriteMetadata
  \/ \E inside_write \in BOOLEAN : FxInterrupt(inside_write)
  \/ FxLoad

SpecIndex == IndexInit /\ [][IndexNext]_vars

(***************************************************************************)
(* POST /v1/ingest (api/routes/ingest.py): every call starts a thread that *)
(* runs _run_indexing with an IngestionPipeline of its own over the data   *)
(* directory of the server.  jobs[j] is the job with the j-th job_id:      *)
(* progress is _jobs[job_id], the rest is the state of its pipeline.       *)
(***************************************************************************)
\* start_ingest lines 44-53: _jobs[job_id] = IndexingProgress("starting"),
\* a new thread
NewJob(root, force) ==
  [pc |-> "starting", root |-> root, force |-> force, pdfs |-> <<>>, passed |-> {},
   index_loaded |-> FALSE, index |-> <<>>, colq_loaded |-> FALSE, colq |-> {},
   progress |-> IndexingProgress("starting"), bound |-> FALSE, emitted |-> {},
   snapshot |-> <<>>]

\* the server with an empty data directory and no job
JobsInit ==
  /\ colqwen_index_enabled \in BOOLEAN
  /\ EmptyDataDir
  /\ fn = NoFn
  /\ jobs = NoJobs
  /\ cli = NoCli
  /\ fx = NoFx

RECURSIVE PendingPdfs(_)
\* the number of PDFs the first n jobs have discovered and not yet processed
PendingPdfs(n) == IF n = 0 THEN 0 ELSE Len(jobs[n].pdfs) + PendingPdfs(n - 1)

\* _notify with the callback on_progress of _run_indexing: _jobs[job_id] is
\* bound to the progress object of run(), which run() goes on mutating;
\* emitted: the values the object had at the calls
notify(jb) == [jb EXCEPT !.bound = TRUE, !.emitted = @ \cup {jb.progress}]

\* _jobs[job_id]: the object start_ingest stored until the first callback,
\* the progress object of run() after it
Reported(jb) == IF jb.bound THEN jb.progress ELSE IndexingProgress("starting")

\* the fields of IngestStatusResponse taken from a progress value
StatusResponse(progress) ==
  [status |-> progress.status, docs_done |-> progress.docs_done,
   docs_total |-> progress.docs_total, pages_done |-> progress.pages_done,
   pages_total |-> progress.pages_total]

\* POST /v1/ingest with an existing root_path (a missing one is answered
\* with 400 and changes nothing)
start_ingest(root, force) ==
  /\ Len(jobs) < MaxJobs
  /\ jobs' = Append(jobs, NewJob(root, force))
  /\ UNCHANGED <<colqwen_index_enabled, disk, nextDocId, job, app, hist, srch, cli, fx>>

\* GET /v1/ingest/{job_id} of a known job, in a worker thread of the server
get_ingest_status(j) ==
  /\ j <= Len(jobs)
  /\ jobs' = [jobs EXCEPT ![j].snapshot = <<StatusResponse(Reported(jobs[j]))>>]
  /\ UNCHANGED <<colqwen_index_enabled, disk, nextDocId, job, app, hist, srch, cli, fx>>

\* the thread of job j: _run_indexing and run() lines 106-107
JobStart(j) ==
  /\ j <= Len(jobs)
  /\ jobs[j].pc = "starting"
  /\ jobs' = [jobs EXCEPT ![j] =
        notify([@ EXCEPT !.progress = IndexingProgress("discovering"), !.pc = "discover"])]
  /\ UNCHANGED <<colqwen_index_enabled, disk, nextDocId, job, app, hist, srch, cli, fx>>

\* the thread of job j: run() lines 109-116
JobDiscover(j) ==
  /\ j <= Len(jobs)
  /\ jobs[j].pc = "discover"
  /\ LET all == discover_pdfs(jobs[j].root)
         existing == {doc.sha256 : doc \in documents}
         pdfs == IF jobs[j].force THEN all ELSE filter_unchanged(all, existing)
     IN /\ nextDocId + PendingPdfs(Len(jobs)) + Len(pdfs) - 1 <= MaxDocs
        /\ jobs' = [jobs EXCEPT ![j] =
              [@ EXCEPT !.pdfs = pdfs,
                        !.passed = {pdfs[i] : i \in 1..Len(pdfs)},
                        !.progress.docs_total = Len(pdfs),
                        !.progress.pages_total = SumPageCount(pdfs),
                        !.pc = "counted"]]
  /\ UNCHANGED <<colqwen_index_enabled, disk, nextDocId, job, app, hist, srch, cli, fx>>

\* the thread of job j: run() lines 117-118
JobIndexing(j) ==
  /\ j <= Len(jobs)
  /\ jobs[j].pc = "counted"
  /\ jobs' = [jobs EXCEPT ![j] =
        notify([@ EXCEPT !.progress.status = "indexing",
                         !.pc = IF jobs[j].pdfs = <<>> THEN "save" ELSE "process"])]
  /\ UNCHANGED <<colqwen_index_enabled, disk, nextDocId, job, app, hist, srch, cli, fx>>

\* the thread of job j: run() lines 120-126, one _process_pdf with all its
\* pages and the callbacks of lines 122, 202 and 126
JobProcess(j) ==
  /\ j <= Len(jobs)
  /\ jobs[j].pc = "process"
  /\ LET f == Head(jobs[j].pdfs)
         d == nextDocId
         n == Min(get_page_count(f), max_pages_per_doc)
         newPages == {<<d, p>> : p \in 0..(n - 1)}
         index == IF jobs[j].index_loaded THEN jobs[j].index ELSE LoadOrNewIndex
         colq == IF jobs[j].colq_loaded THEN jobs[j].colq
                 ELSE IF colqManifestExists THEN colqManifest ELSE {}
         useColq == multi_vector_enabled /\ n > 0
         during == {[jobs[j].progress EXCEPT !.current_doc = f, !.pages_done = @ + i] :
                      i \in 0..n}
     IN /\ documents' = documents \cup
              {[doc_id |-> d, path |-> f, sha256 |-> compute_sha256(f), num_pages |-> n]}
        /\ pages' = pages \cup
              {[doc_id |-> d, page_num |-> p, text_layer |-> extract_text_layer(f, p)] :
                 p \in 0..(n - 1)}
        /\ rendered' = rendered \cup newPages
        /\ colqFiles' = IF useColq THEN colqFiles \cup newPages ELSE colqFiles
        /\ nextDocId' = d + 1
        /\ jobs' = [jobs EXCEPT ![j] =
              notify([@ EXCEPT !.pdfs = Tail(@),
                        !.index_loaded = @ \/ n > 0,
                        !.index = IF n > 0 THEN FAISSIndex_add(index, ProcessPages(d, 0, n))
                                  ELSE @,
                        !.colq_loaded = @ \/ useColq,
                        !.colq = IF useColq THEN colq \cup newPages ELSE @,
                        !.progress.current_doc = f,
                        !.progress.pages_done = @ + n,
                        !.progress.docs_done = @ + 1,
                        !.emitted = @ \cup during,
                        !.pc = IF Tail(jobs[j].pdfs) = <<>> THEN "save" ELSE "process"])]
  /\ UNCHANGED <<colqwen_index_enabled, faissExists, faissDisk, colqManifestExists,
                 colqManifest, bm25Disk, job, app, hist, srch, cli, fx>>

\* the thread of job j: render_page raises on the first page of a PDF
\* (_process_pdf line 161, after the Document row and the callback of line
\* 122); nothing catches it in run() or _run_indexing and the thread ends
JobRenderFail(j) ==
  /\ j <= Len(jobs)
  /\ jobs[j].pc = "process"
  /\ LET f == Head(jobs[j].pdfs)
         d == nextDocId
         n == Min(get_page_count(f), max_pages_per_doc)
     IN /\ n > 0
        /\ documents' = documents \cup
              {[doc_id |-> d, path |-> f, sha256 |-> compute_sha256(f), num_pages |-> n]}
        /\ nextDocId' = d + 1
        /\ jobs' = [jobs EXCEPT ![j] =
              notify([@ EXCEPT !.pdfs = <<>>, !.progress.current_doc = f, !.pc = "failed"])]
  /\ UNCHANGED <<colqwen_index_enabled, pages, faissExists, faissDisk, rendered, colqFiles,
                 colqManifestExists, colqManifest, bm25Disk, job, app, hist, srch, cli, fx>>

\* the thread of job j: run() lines 128-135
JobSave(j) ==
  /\ j <= Len(jobs)
  /\ jobs[j].pc = "save"
  /\ faissExists' = TRUE
  /\ faissDisk' = IF jobs[j].index_loaded THEN jobs[j].index ELSE LoadOrNewIndex
  /\ colqManifestExists' = (colqManifestExists \/ multi_vector_enabled)
  /\ colqManifest' = IF ~multi_vector_enabled THEN colqManifest
                     ELSE IF jobs[j].colq_loaded THEN jobs[j].colq
                     ELSE IF colqManifestExists THEN colqManifest ELSE {}
  /\ jobs' = [jobs EXCEPT ![j] =
        notify([@ EXCEPT !.progress.status = "completed", !.pc = "done"])]
  /\ UNCHANGED <<colqwen_index_enabled, documents, pages, rendered, colqFiles, bm25Disk,
                 nextDocId, job, app, hist, srch, cli, fx>>

JobsNext ==
  \/ \E root \in Roots, force \in BOOLEAN : start_ingest(root, force)
  \/ \E j \in 1..MaxJobs : get_ingest_status(j)
  \/ \E j \in 1..MaxJobs : JobStart(j)
  \/ \E j \in 1..MaxJobs : JobDiscover(j)
  \/ \E j \in 1..MaxJobs : JobIndexing(j)
  \/ \E j \in 1..MaxJobs : JobProcess(j)
  \/ \E j \in 1..MaxJobs : JobRenderFail(j)
  \/ \E j \in 1..MaxJobs : JobSave(j)

SpecJobs == JobsInit /\ [][JobsNext]_vars

(***************************************************************************)
(* Functions checked on their own arguments:                               *)
(* SearchService._aggregate_by_page (search/retrieval.py),                 *)
(* reciprocal_rank_fusion (search/fusion.py) and extract_regions           *)
(* (ingestion/regions.py).                                                 *)
(***************************************************************************)
\* a list of region hits has at most MaxHits entries
MaxHits == 3

\* the inner product of two L2-normalised vectors lies in [-1, 1]; the
\* scores of the hits are counted in halves
HitScores == {-2, -1, 1}

\* the rows of C2 a hit may name: two regions of two pages
HitMetas == {[doc_id |-> d, page_num |-> 0, region |-> r] : d \in 1..2, r \in {"full", "q1"}}

\* reciprocal_rank_fusion is called with at most MaxLists lists
MaxLists == 2

PageKeys == {"A", "B", "C", "D"}

\* the lists reciprocal_rank_fusion is called with; it does not read the scores
RankedLists == RankedOver(PageKeys, MaxRank)

\* images of the model are at most MaxSide pixels high and wide, or 400
MaxSide == 6

Sides == (1..MaxSide) \cup {400}

\* overlap_pct in hundredths: 0.01, 0.1 (the default), 0.25, 0.49
OverlapPcts == {1, 10, 25, 49}

\* the length of s[a:b] for a sequence of n elements and 0 <= a
SliceLen(a, b, n) == Max(0, Min(b, n) - Min(a, n))

\* extract_regions on an image of h x w pixels: the shape of each region.
\* int() truncates; the products are exact numbers
extract_regions(h, w, overlap_pct) ==
  LET overlap_x == (w * overlap_pct) \div 100
      overlap_y == (h * overlap_pct) \div 100
      mid_x == w \div 2
      mid_y == h \div 2
  IN [full |-> [h |-> h, w |-> w],
      q1 |-> [h |-> SliceLen(0, mid_y + overlap_y, h), w |-> SliceLen(0, mid_x + overlap_x, w)],
      q2 |-> [h |-> SliceLen(0, mid_y + overlap_y, h), w |-> SliceLen(mid_x - overlap_x, w, w)],
      q3 |-> [h |-> SliceLen(mid_y - overlap_y, h, h), w |-> SliceLen(0, mid_x + overlap_x, w)],
      q4 |-> [h |-> SliceLen(mid_y - overlap_y, h, h), w |-> SliceLen(mid_x - overlap_x, w, w)]]

\* one call of one of the three functions, with its arguments
FnInit ==
  /\ colqwen_index_enabled = FALSE
  /\ EmptyDataDir
  /\ jobs = NoJobs
  /\ cli = NoCli
  /\ fx = NoFx
  /\ \/ \E results \in SeqsUpTo([meta : HitMetas, score : HitScores], MaxHits) :
          fn = [pc |-> "call", name |-> "_aggregate_by_page", results |-> results]
     \/ \E result_lists \in SeqsUpTo(RankedLists, MaxLists) :
          fn = [pc |-> "call", name |-> "reciprocal_rank_fusion",
                result_lists |-> result_lists]
     \/ \E h \in Sides, w \in Sides, overlap_pct \in OverlapPcts :
          fn = [pc |-> "call", name |-> "extract_regions", h |-> h, w |-> w,
                overlap_pct |-> overlap_pct]

FnUnchanged ==
  UNCHANGED <<colqwen_index_enabled, disk, nextDocId, job, app, hist, sq, sres, units>>

CallAggregate ==
  /\ fn.pc = "call"
  /\ fn.name = "_aggregate_by_page"
  /\ fn' = [fn EXCEPT !.pc = "returned"] @@ [page_scores |-> aggregate_by_page(fn.results)]
  /\ FnUnchanged

CallFusion ==
  /\ fn.pc = "call"
  /\ fn.name = "reciprocal_rank_fusion"
  /\ fn' = [fn EXCEPT !.pc = "returned"]
             @@ [fused |-> reciprocal_rank_fusion(fn.result_lists, rrf_k)]
  /\ FnUnchanged

CallRegions ==
  /\ fn.pc = "call"
  /\ fn.name = "extract_regions"
  /\ fn' = [fn EXCEPT !.pc = "returned"]
             @@ [regions |-> extract_regions(fn.h, fn.w, fn.overlap_pct)]
  /\ FnUnchanged

FnNext == CallAggregate \/ CallFusion \/ CallRegions

SpecFn == FnInit /\ [][FnNext]_vars


(***************************************************************************)
(* Properties.                                                             *)
(***************************************************************************)
DocIds == {doc.doc_id : doc \in documents}

\* the 5 rows of page (d, p) are in the index, one per region
HasAllRegions(index, d, p) ==
  /\ RowsOf(index, d, p) = Len(Regions)
  /\ \A i \in 1..Len(Regions) :
       \E j \in 1..Len(index) : index[j] = PageMetadata(d, p)[i]

\* every index object or file of the model
AllIndexes == {faissDisk, job.index, app.index, app.ss_index}

\* C1: when run(root, force_reindex=False) completes right after a completed
\* run(root, force_reindex=False) over the same root, nothing removed or
\* reindexed in between, its docs_total is 0 and the number of Document rows,
\* of Page rows and of saved vectors is what it was when the run started.
C1_IdempotentReingest ==
  (job.pc = "done" /\ hist.repeat) =>
     /\ job.progress.docs_total = 0
     /\ <<Cardinality(documents), Cardinality(pages), size(faissDisk)>> = hist.snap

\* a second run over an ingested, non-empty root has completed
C1_Witness ==
  /\ job.pc = "done"
  /\ hist.repeat
  /\ documents # {}
  /\ size(faissDisk) > 0

\* C2: once the remove operation for doc_id d has returned, no store reports
\* d: no row of C2 (saved or in the server's index), no manifest entry of C3
\* (has_page and get consult the manifest), no page in C4, no Document row
\* in C5.
C2_RemovedNowhere ==
  \A d \in hist.removed :
     /\ d \notin DocIds
     /\ RowsOfDoc(faissDisk, d) = 0
     /\ RowsOfDoc(app.index, d) = 0
     /\ \A k \in colqManifest : k[1] # d
     /\ \A i \in 1..Len(bm25Disk) : bm25Disk[i].doc_id # d

\* C3: no two Document rows have the same sha256.
C3_Sha256Unique ==
  \A x, y \in documents : x.sha256 = y.sha256 => x = y

\* C4: for every Page row (d, p), every index (the saved one, the pipeline's,
\* the server's) holds either no row tagged (d, p) or exactly the 5 rows
\* full, q1, q2, q3, q4; and every page the running pipeline has processed
\* has its 5 rows in the pipeline's index, with its Page row unless its
\* document was deleted meanwhile.
C4_NoPartialPages ==
  /\ \A pg \in pages : \A index \in AllIndexes :
        \/ RowsOf(index, pg.doc_id, pg.page_num) = 0
        \/ HasAllRegions(index, pg.doc_id, pg.page_num)
  /\ job.pc \in {"page", "embed", "end_pdf", "begin_pdf", "save"} =>
        \A k \in hist.ingested :
           /\ HasAllRegions(job.index, k[1], k[2])
           /\ k[1] \in DocIds => \E pg \in pages : pg.doc_id = k[1] /\ pg.page_num = k[2]

\* after an ingest aborted on its second page: one Page row with its 5 saved
\* rows from an earlier run, Page rows of the aborted run without any
C4_Witness ==
  /\ job.pc = "failed"
  /\ \E pg \in pages : HasAllRegions(faissDisk, pg.doc_id, pg.page_num)
  /\ \E pg \in pages : RowsOf(faissDisk, pg.doc_id, pg.page_num) = 0

\* C5: after a completed ingest run (every document of C5 fully processed),
\* a Document d is in C5 iff the saved C2 holds at least one row of d.
C5_DocumentIffVectors ==
  (/\ job.pc = "done"
   /\ \A doc \in documents :
        Cardinality({pg \in pages : pg.doc_id = doc.doc_id}) = doc.num_pages) =>
     \A d \in 1..MaxDocs : (d \in DocIds) <=> (RowsOfDoc(faissDisk, d) > 0)

\* C6: at every observation point, every Document of C5 has the 5 region
\* rows of each of its Page rows in the saved C2.
C6_NoGhostDocuments ==
  \A doc \in documents : \A pg \in pages :
     pg.doc_id = doc.doc_id => HasAllRegions(faissDisk, pg.doc_id, pg.page_num)

\* C7: a search answered after the job reported completed consults an index
\* that holds the 5 region rows of every page of that ingest (whose document
\* has not been deleted since).
C7_SearchSeesIngest ==
  (job.pc = "done" /\ hist.search_done) =>
     \A k \in hist.ingested : k[1] \in DocIds => k \in hist.search_pages

\* C10: after a completed ingest run, every page it ingested whose text
\* layer is non-empty has an entry in the saved text index C4.
C10_TextIndexed ==
  job.pc = "done" =>
     \A k \in hist.ingested :
        (\E pg \in pages : pg.doc_id = k[1] /\ pg.page_num = k[2] /\ pg.text_layer) =>
           \E i \in 1..Len(bm25Disk) :
              bm25Disk[i].doc_id = k[1] /\ bm25Disk[i].page_num = k[2]

\* C12: when render_page raised on a page of document d and the run has
\* ended, one policy was followed: either the run went on and completed, and
\* the Document row of d has num_pages equal to its number of Page rows, each
\* with its 5 saved rows; or nothing is recorded for d in C2, C3, C4 and C5.
C12_RenderFailurePolicy ==
  (hist.render_failed # 0 /\ job.pc \in {"done", "failed"}) =>
     LET d == hist.render_failed
         pagesOf == {pg \in pages : pg.doc_id = d}
     IN \/ /\ job.pc = "done"
           /\ \A doc \in documents :
                 doc.doc_id = d =>
                    /\ doc.num_pages = Cardinality(pagesOf)
                    /\ \A pg \in pagesOf : HasAllRegions(faissDisk, d, pg.page_num)
        \/ /\ d \notin DocIds
           /\ pagesOf = {}
           /\ RowsOfDoc(faissDisk, d) = 0
           /\ \A k \in colqManifest : k[1] # d
           /\ \A i \in 1..Len(bm25Disk) : bm25Disk[i].doc_id # d

\* C14: the command line returns 0 on success and non-zero on failure:
\* `index` with a non-existent path returns non-zero, `eval
\* --check-regression` returns non-zero when the comparison of some evaluated
\* mode did not pass, and a command that ran through without such a failure
\* returns 0.
C14_ExitCodes ==
  cli.pc = "returned" =>
     /\ (cli.command = "index" /\ ~cli.path_exists) => cli.exit_code # 0
     /\ (cli.command = "eval" /\ cli.check_regression
           /\ \E m \in DOMAIN cli.passed : ~cli.passed[m]) => cli.exit_code # 0
     /\ (cli.command = "index" /\ cli.path_exists /\ ~cli.raises) => cli.exit_code = 0
     /\ (cli.command = "eval" /\ ~cli.raises
           /\ \A m \in DOMAIN cli.passed : cli.passed[m]) => cli.exit_code = 0

\* C18: compare_to_baseline returns passed = false iff the baseline file of
\* the mode exists and baseline recall@10 - current recall@10 > threshold
\* (checked on `eval --check-regression` without --save-baseline, which
\* compares every evaluated mode); baseline 0.72 with threshold 0.05 fails
\* against current 0.65 and passes against current 0.70.
C18_CompareToBaseline ==
  (cli.pc = "returned" /\ cli.command = "eval" /\ cli.check_regression
     /\ ~cli.save_baseline) =>
     /\ DOMAIN cli.passed = EvalModes(cli.mode)
     /\ \A m \in DOMAIN cli.passed :
           /\ ~cli.passed[m] <=>
                 /\ cli.baseline[m] # NoBaseline
                 /\ cli.baseline[m] - cli.current[m] > cli.regression_threshold
           /\ (cli.baseline[m] = 72 /\ cli.regression_threshold = 5) =>
                 /\ cli.current[m] = 65 => ~cli.passed[m]
                 /\ cli.current[m] = 70 => cli.passed[m]

\* a comparison of baseline 0.72 with current 0.65 at threshold 0.05 failed
\* and one where the drop equals the threshold passed
C18_Witness ==
  /\ cli.pc = "returned"
  /\ cli.command = "eval"
  /\ cli.check_regression
  /\ ~cli.save_baseline
  /\ cli.mode = "both"
  /\ cli.regression_threshold = 5
  /\ cli.baseline["fast"] = 72 /\ cli.current["fast"] = 65 /\ ~cli.passed["fast"]
  /\ cli.baseline["accurate"] = 75 /\ cli.current["accurate"] = 70
  /\ cli.passed["accurate"]

C20_AtomicSave ==
  fx.pc \in {"loaded", "load_failed"} =>
     /\ fx.pc = "loaded"
     /\ fx.vectors = fx.id_to_metadata
     /\ fx.vectors = fx.committed \/ fx.vectors = fx.attempt

\* C15: after a completed ingest run with nothing removed or reindexed since
\* it started, C3 holds the matrix of every page the run processed iff the
\* multi-vector channel is enabled, and holds nothing when it is not; the
\* first run over a root with one 1-page PDF ends with status completed,
\* pages_done = 1, C2.size = 5 and C3.page_count = 1 (enabled) or 0 (not).
C15_MultiVectorIffEnabled ==
  (job.pc = "done" /\ hist.clean) =>
     /\ \A k \in hist.ingested :
           (k \in colqManifest /\ k \in colqFiles) <=> multi_vector_enabled
     /\ colqManifest # {} => multi_vector_enabled
     /\ \A k \in colqManifest : k \in colqFiles
     /\ (nextDocId = 2 /\ hist.ingested = {<<1, 0>>}) =>
           /\ job.progress.status = "completed"
           /\ job.progress.pages_done = 1
           /\ size(faissDisk) = 5
           /\ Cardinality(colqManifest) = IF multi_vector_enabled THEN 1 ELSE 0

\* the first run over the root with the 1-page a.pdf has completed with the
\* channel enabled and its matrix is in C3
C15_Witness ==
  /\ job.pc = "done"
  /\ hist.clean
  /\ multi_vector_enabled
  /\ nextDocId = 2
  /\ hist.ingested = {<<1, 0>>}
  /\ colqManifest = {<<1, 0>>}

\* C16: at most one job started by POST /v1/ingest is running (started and
\* not yet completed) at a time; so no file passes the deduplication of two
\* force_reindex=False jobs, and when all jobs have completed the saved C2
\* holds the 5 rows of every page of every Document.
C16_OneJobAtATime ==
  /\ Cardinality({j \in 1..Len(jobs) : jobs[j].pc \notin {"done", "failed"}}) <= 1
  /\ \A j1, j2 \in 1..Len(jobs) :
        (j1 # j2 /\ ~jobs[j1].force /\ ~jobs[j2].force) =>
           jobs[j1].passed \cap jobs[j2].passed = {}
  /\ (\A j \in 1..Len(jobs) : jobs[j].pc = "done") =>
        \A doc \in documents :
           RowsOfDoc(faissDisk, doc.doc_id) = Len(Regions) * doc.num_pages

\* C17: DELETE /v1/documents of a document d whose n pages are all in the
\* saved C2, with no ingest job running and every saved row belonging to a
\* Document of C5, decreases the number of Document
\* rows by 1 and C2.size by 5*n and leaves the C2 rows, the Page rows and the
\* rendered pages of every other document as they were.
C17_RemoveFrame ==
  [][\A d \in 1..MaxDocs :
       (/\ RemoveDocuments(d)
        /\ job.pc \in {"idle", "done"}
        /\ \A i \in 1..Len(faissDisk) : faissDisk[i].doc_id \in DocIds
        /\ \A doc \in documents :
              doc.doc_id = d => RowsOfDoc(faissDisk, d) = Len(Regions) * doc.num_pages) =>
          /\ Cardinality(documents') = Cardinality(documents) - 1
          /\ size(faissDisk') = size(faissDisk) - RowsOfDoc(faissDisk, d)
          /\ SelectSeq(faissDisk', LAMBDA m : m.doc_id # d)
                = SelectSeq(faissDisk, LAMBDA m : m.doc_id # d)
          /\ {pg \in pages' : pg.doc_id # d} = {pg \in pages : pg.doc_id # d}
          /\ {k \in rendered' : k[1] # d} = {k \in rendered : k[1] # d}]_vars

\* the call went through ColQwen2Reranker.rerank: accurate mode (or the
\* deprecated use_rerank flag) without a populated C3
RerankCalled ==
  /\ sq.search_mode = "accurate" \/ sq.use_rerank
  /\ ~is_available

\* C11: the list ColQwen2Reranker.rerank returns (and search returns
\* unchanged) never contains a candidate whose rendered page image is absent
\* from rendered/, also when the images of all candidates are absent or the
\* scoring raised.
C11_RerankDropsMissing ==
  (sq.pc = "returned" /\ RerankCalled) =>
     \A i \in 1..Len(sres) : <<sres[i].doc_id, sres[i].page_num>> \in rendered

\* C13: every SearchResult returned by search has stage "fast" or
\* "reranked": "fast" in fast mode without rerank, "reranked" in accurate
\* mode (answered from C3 or by the rerank fallback).
C13_StageFastOrReranked ==
  sq.pc = "returned" =>
     \A i \in 1..Len(sres) :
        /\ sres[i].stage \in {"fast", "reranked"}
        /\ (sq.search_mode = "fast" /\ ~sq.use_rerank) => sres[i].stage = "fast"
        /\ sq.search_mode = "accurate" => sres[i].stage = "reranked"

\* the pages of the saved C2
IndexedPages == {<<faissDisk[i].doc_id, faissDisk[i].page_num>> : i \in 1..Len(faissDisk)}

\* C8: a search called with top_k = 0 returns the empty list, in fast mode
\* and in accurate mode.
C8_TopKZeroEmpty ==
  (sq.pc = "returned" /\ sq.top_k = 0) => sres = <<>>

\* C9: in fast mode without rerank, over an index of N pages whose documents
\* are all in C5, a search with top_k > N returns exactly the N indexed
\* pages, each once.
C9_AllPagesReturned ==
  (/\ sq.pc = "returned"
   /\ sq.search_mode = "fast" /\ ~sq.use_rerank
   /\ sq.top_k > Cardinality(IndexedPages)) =>
     /\ Len(sres) = Cardinality(IndexedPages)
     /\ {<<sres[i].doc_id, sres[i].page_num>> : i \in 1..Len(sres)} = IndexedPages

\* the page a hit belongs to
PageOf(hit) == <<hit.meta.doc_id, hit.meta.page_num>>

\* the greatest element of a non-empty set of numbers
SetMax(S) == CHOOSE x \in S : \A y \in S : y <= x

\* C21: _aggregate_by_page returns, for each distinct (doc_id, page_num) of
\* the hit list, exactly the maximum score among that page's hits, whatever
\* the sign of the scores, and no key for a page without hits.
C21_AggregateIsPageMax ==
  (fn.pc = "returned" /\ fn.name = "_aggregate_by_page") =>
     LET keys == {PageOf(fn.results[i]) : i \in 1..Len(fn.results)}
     IN /\ {fn.page_scores[i].key : i \in 1..Len(fn.page_scores)} = keys
        /\ Len(fn.page_scores) = Cardinality(keys)
        /\ \A i \in 1..Len(fn.page_scores) :
              fn.page_scores[i].score =
                SetMax({fn.results[j].score :
                          j \in {x \in 1..Len(fn.results) :
                                   PageOf(fn.results[x]) = fn.page_scores[i].key}})

\* the 1-based rank of key in a ranked list, 0 when the list does not hold it
RankIn(l, key) ==
  IF \E i \in 1..Len(l) : l[i].key = key
  THEN CHOOSE i \in 1..Len(l) : l[i].key = key
  ELSE 0

RECURSIVE FusedScore(_, _)
\* the sum over the lists holding key of 1 / (k + rank)
FusedScore(lists, key) ==
  IF lists = <<>> THEN 0
  ELSE (IF RankIn(Head(lists), key) = 0 THEN 0 ELSE RRFTerm(rrf_k, RankIn(Head(lists), key)))
       + FusedScore(Tail(lists), key)

\* the lists [A, B, C] and [B, A, D]
FusionExample == <<Ranking(<<"A", "B", "C">>), Ranking(<<"B", "A", "D">>)>>

\* C22: reciprocal_rank_fusion returns every key of its lists once, with
\* the sum of 1/(60 + rank) over the lists holding it, by descending score;
\* one list comes back in its order, no list gives the empty list, and for
\* [A, B, C] and [B, A, D] the first two are A and B, then C and D.
C22_ReciprocalRankFusion ==
  (fn.pc = "returned" /\ fn.name = "reciprocal_rank_fusion") =>
     LET lists == fn.result_lists
         fused == fn.fused
         keys == UNION {{lists[n][i].key : i \in 1..Len(lists[n])} : n \in 1..Len(lists)}
     IN /\ {fused[i].key : i \in 1..Len(fused)} = keys
        /\ Len(fused) = Cardinality(keys)
        /\ \A i \in 1..Len(fused) : fused[i].score = FusedScore(lists, fused[i].key)
        /\ \A i \in 1..(Len(fused) - 1) : fused[i].score >= fused[i + 1].score
        /\ Len(lists) = 1 =>
             [i \in 1..Len(fused) |-> fused[i].key] = [i \in 1..Len(lists[1]) |-> lists[1][i].key]
        /\ lists = <<>> => fused = <<>>
        /\ lists = FusionExample =>
             /\ {fused[1].key, fused[2].key} = {"A", "B"}
             /\ {fused[3].key, fused[4].key} = {"C", "D"}

\* the fusion of [A, B, C] and [B, A, D] returned four keys, the first with
\* the two terms 1/61 + 1/62
C22_Witness ==
  /\ fn.pc = "returned"
  /\ fn.name = "reciprocal_rank_fusion"
  /\ fn.result_lists = FusionExample
  /\ Len(fn.fused) = 4
  /\ fn.fused[1].score = RRFTerm(rrf_k, 1) + RRFTerm(rrf_k, 2)
  /\ fn.fused[4].score = RRFTerm(rrf_k, 3)

\* C26: for every image of H >= 1 by W >= 1 pixels and every overlap
\* 0 < o < 0.5, each quadrant extract_regions returns is more than H/2 high
\* and more than W/2 wide.
C26_QuadrantsExceedHalf ==
  (fn.pc = "returned" /\ fn.name = "extract_regions") =>
     \A q \in {"q1", "q2", "q3", "q4"} :
        /\ 2 * fn.regions[q].h > fn.h
        /\ 2 * fn.regions[q].w > fn.w

C30_FastOrderedByScore ==
  (sq.pc = "returned" /\ sq.search_mode = "fast" /\ ~sq.use_rerank) =>
     \A i \in 1..(Len(sres) - 1) : sres[i].score >= sres[i + 1].score

\* C27: every response of GET /v1/ingest/{job_id} carries the fields of a
\* Progress value the pipeline has passed to its callback (or of the value
\* start_ingest stored, before the first callback).
C27_SnapshotWasEmitted ==
  \A j \in 1..Len(jobs) :
     \A i \in 1..Len(jobs[j].snapshot) :
        jobs[j].snapshot[i] \in
          {StatusResponse(v) : v \in jobs[j].emitted \cup {IndexingProgress("starting")}}

\* C28: a job whose thread has ended reports a terminal status: completed
\* when run() returned, and not starting, discovering or indexing when the
\* run stopped with an exception.  No step changes _jobs[job_id] after the
\* thread has ended, so what it reports then is what it reports forever.
C28_TerminalStatus ==
  \A j \in 1..Len(jobs) :
     /\ jobs[j].pc = "done" => Reported(jobs[j]).status = "completed"
     /\ jobs[j].pc = "failed" =>
          Reported(jobs[j]).status \notin {"starting", "discovering", "indexing"}

\* the rows of an index come in blocks of one page: 5 rows of the same
\* (doc_id, page_num) in the order full, q1, q2, q3, q4; the blocks of a
\* document are in increasing page order and no block of another document
\* lies between two of them
PageBlocks(index) ==
  /\ Len(index) % Len(Regions) = 0
  /\ \A i \in 1..Len(index) :
        LET first == i - ((i - 1) % Len(Regions))
        IN /\ index[i].region = Regions[((i - 1) % Len(Regions)) + 1]
           /\ index[i].doc_id = index[first].doc_id
           /\ index[i].page_num = index[first].page_num
  /\ \A i, j \in 1..Len(index) :
        (i < j /\ index[i].doc_id = index[j].doc_id) =>
           /\ index[i].page_num <= index[j].page_num
           /\ (index[i].page_num = index[j].page_num) => (j - i < Len(Regions))
           /\ \A k \in i..j : index[k].doc_id = index[i].doc_id

\* C24: in C2 (the index a run is building, the saved index and the index
\* the server holds) the rows of every document are in increasing page order
\* and, within a page, in the order full, q1, q2, q3, q4; the 5 rows of page
\* p precede every row of page p+1 and the rows of different pages or
\* documents are not interleaved.
C24_RowsInPageAndRegionOrder ==
  \A index \in AllIndexes : PageBlocks(index)

\* the saved index holds the two pages of one document: the 5 rows of page
\* 0, then the 5 rows of page 1
C24_Witness ==
  /\ Len(faissDisk) = 2 * Len(Regions)
  /\ faissDisk[1].doc_id = faissDisk[Len(Regions) + 1].doc_id
  /\ faissDisk[1].page_num = 0
  /\ faissDisk[Len(Regions) + 1].page_num = 1
  /\ faissDisk[Len(Regions)].region = "q4"

C29_CompletedCountsMatch ==
  job.progress.status = "completed" =>
     /\ job.progress.docs_done = job.progress.docs_total
     /\ job.progress.pages_done = job.progress.pages_total

====
